---- MODULE Spec2Model ----
(***************************************************************************)
(* rigal: static photo gallery generator (src/src/main.rs).                *)
(*                                                                         *)
(* A model of `build`: the scan of the input tree (process_images,         *)
(* into_conversion), the concurrent transcode tasks (process_image under   *)
(* join_all), the mirroring of the theme assets (copy_static_data) and the *)
(* assembly of the album index pages (write_templates, write_template),    *)
(* over a small filesystem with modification times.                        *)
(*                                                                         *)
(* A path is the sequence of its components, as std::path::Path::iter      *)
(* yields them: "./out/a" is <<".", "out", "a">>.                          *)
(*                                                                         *)
(* The clock advances between two builds only, so the writes of one build  *)
(* carry one time, and a touch happens at a time of its own.  The steps    *)
(* that can return Err (a walk step, a metadata read, create_dir_all, the  *)
(* decode, a save, a copy, the rendering) fail at will, MaxFaults times in *)
(* a behaviour; a create_dir_all that fails has created nothing, a write   *)
(* that fails has written nothing or a truncated file.  The input tree and *)
(* the theme do not change while a build runs.                             *)
(***************************************************************************)
EXTENDS Integers, Sequences, FiniteSets, TLC

VARIABLES
    config,      \* Config: input, output, resize (TRUE when a resize box is set)
    srcMtime,    \* the regular files below config.input: entry path -> mtime
    theme,       \* _theme/static: path below it -> [isDir, mtime]; << >> when absent
    now,         \* the clock that stamps every write
    outDirs,     \* the directories that exist outside the input and theme trees
    outFiles,    \* the files that exist there: path -> [mtime, content]
    pc,          \* where `build` is: idle, transcode, mirror, templates
    entries,     \* process_images: the Conversions the scan collected
    status,      \* process_image: each Conversion's position in its future
    progress,    \* the progress bar's position
    mirrorTodo,  \* copy_static_data: the entries the walk has not yielded yet
    walkTodo,    \* write_templates: the directories the walk has not yielded yet
    result,      \* what the last `build` that returned returned ("None" before)
    skipped,     \* history: the images the running build's scan dropped on an error
    written,     \* history: the paths the running build has written
    touched,     \* history: the sources and assets touched since the last build returned
    faults,      \* how many steps have failed so far
    clean        \* history: the last build dropped no entry, ran every task to
                 \* success, returned Ok and met no file dated after its time

vars == <<config, srcMtime, theme, now, outDirs, outFiles, pc, entries, status,
          progress, mirrorTodo, walkTodo, result, skipped, written, touched, faults,
          clean>>

-----------------------------------------------------------------------------
(* Bounds *)

\* The clock stops here.
MaxTime == 2

\* At most this many steps fail (a scan entry, a task's step, a mirror or
\* assembly step) in one behaviour.
MaxFaults == 1

-----------------------------------------------------------------------------
(* Paths *)

\* PathBuf::join / PathBuf::push of a relative path.
join(p, q) == p \o q

\* PathBuf::pop.
parent(p) == SubSeq(p, 1, Len(p) - 1)

\* Path::file_name.
file_name(p) == p[Len(p)]

\* Path::starts_with.
starts_with(p, pre) == Len(pre) <= Len(p) /\ SubSeq(p, 1, Len(pre)) = pre

\* Path::strip_prefix; the caller handles the Err of a path that does not start with pre.
strip_prefix(p, pre) == SubSeq(p, Len(pre) + 1, Len(p))

\* Path::extension of the file names of the model ("" is None).
extension(name) ==
    CASE name \in {"p.jpg", "r.jpg"} -> "jpg"
      [] name = "n.txt" -> "txt"
      [] name = "s.css" -> "css"
      [] name = "index.html" -> "html"
      [] OTHER -> ""

\* Builder::new: the accepted extensions.
extensions == {"jpg"}

\* The directories create_dir_all(p) makes sure exist: p and its parents.
ancestors(p) == {SubSeq(p, 1, k) : k \in 1..Len(p)}

\* Path::exists.
exists(p) == p \in outDirs \/ p \in DOMAIN outFiles

\* The sequences that list the set S once each, in any order (a directory listing).
RECURSIVE Orders(_)
Orders(S) ==
    IF S = {} THEN {<< >>}
    ELSE UNION {{<<x>> \o s : s \in Orders(S \ {x})} : x \in S}

-----------------------------------------------------------------------------
(* The inputs of a build *)

\* Config.input with Config.output, as written in rigal.toml.
Roots == {[input |-> <<"in">>, output |-> <<"out">>],
          [input |-> <<"photos", "in">>, output |-> <<".", "out">>]}

\* The image files the input tree may hold, below Config.input, and the other
\* file it holds.
SrcImages == {<<"p.jpg">>, <<"a", "b", "r.jpg">>}
SrcOther == <<"a", "n.txt">>

\* What _theme/static holds when it exists, below it: itself, a file and a directory.
ThemeRel == {<< >>, <<"s.css">>, <<"js">>}
ThemeDirs == {<< >>, <<"js">>}

\* File contents: the bytes of a source or asset file, what resize_and_save
\* encodes from a decoded source, and what a write that failed half-way leaves.
Raw(p) == [kind |-> "raw", of |-> p]
Thumbnail(p) == [kind |-> "thumbnail", of |-> p]
Resized(p) == [kind |-> "resized", of |-> p]
Partial(p) == [kind |-> "partial", of |-> p]

File(c) == [mtime |-> now, content |-> c]

\* Conversion { from, to }.
Conversion(from, to) == [from |-> from, to |-> to]

\* _theme/static as a tree.
Theme == [e \in ThemeRel |-> [isDir |-> e \in ThemeDirs, mtime |-> 0]]

\* The input tree that holds the images S: every file is older than the clock,
\* but p.jpg, which may be dated after it.
Sources(S, future) ==
    [e \in {join(config.input, r) : r \in S \cup {SrcOther}} |->
        IF future /\ file_name(e) = "p.jpg" THEN now + 1 ELSE 0]

Init ==
    /\ \E r \in Roots, resize \in BOOLEAN :
          config = [input |-> r.input, output |-> r.output, resize |-> resize]
    /\ now = 1
    /\ \E S \in SUBSET SrcImages, future \in BOOLEAN : srcMtime = Sources(S, future)
    /\ theme \in {<< >>, Theme}
    /\ outDirs = {}
    /\ outFiles = << >>
    /\ pc = "idle"
    /\ entries = {}
    /\ status = << >>
    /\ progress = 0
    /\ mirrorTodo = {}
    /\ walkTodo = {}
    /\ result = "None"
    /\ skipped = {}
    /\ written = {}
    /\ touched = {}
    /\ faults = 0
    /\ clean = FALSE

-----------------------------------------------------------------------------------------------------------------------------------------------------
(* The world between two builds *)

\* Time passes, between two builds: every write of one build carries one time.
Tick ==
    /\ pc = "idle"
    /\ now < MaxTime
    /\ now' = now + 1
    /\ UNCHANGED <<config, srcMtime, theme, outDirs, outFiles, pc, entries, status,
                   progress, mirrorTodo, walkTodo, result, skipped, written, touched,
                   faults, clean>>

\* touch(1) on a source image, some time after the last build: its
\* modification time advances to the clock's.
TouchSource ==
    /\ pc = "idle"
    /\ now < MaxTime
    /\ now' = now + 1
    /\ \E e \in DOMAIN srcMtime :
          /\ extension(file_name(e)) = "jpg"
          /\ srcMtime[e] < now'
          /\ srcMtime' = [srcMtime EXCEPT ![e] = now']
          /\ touched' = touched \cup {e}
    /\ UNCHANGED <<config, theme, outDirs, outFiles, pc, entries, status,
                   progress, mirrorTodo, walkTodo, result, skipped, written, faults, clean>>

\* touch(1) on a theme asset.
TouchAsset ==
    /\ pc = "idle"
    /\ now < MaxTime
    /\ now' = now + 1
    /\ \E e \in DOMAIN theme :
          /\ ~theme[e].isDir
          /\ theme[e].mtime < now'
          /\ theme' = [theme EXCEPT ![e].mtime = now']
          /\ touched' = touched \cup {join(<<"_theme", "static">>, e)}
    /\ UNCHANGED <<config, srcMtime, outDirs, outFiles, pc, entries, status,
                   progress, mirrorTodo, walkTodo, result, skipped, written, faults, clean>>

-----------------------------------------------------------------------------
(* process_images: the scan *)

\* into_conversion without its comparison of the modification times.
into_conversion_exists_only(entry, metaErr) ==
    IF Len(entry) = 0
    THEN [res |-> "Err", conv |-> [from |-> entry, to |-> entry]]
    ELSE LET path == join(config.output, strip_prefix(entry, <<entry[1]>>))
         IN  [res |-> IF ~exists(path) THEN "Some" ELSE "None",
              conv |-> [from |-> entry, to |-> path]]

\* Builder::into_conversion on a walked entry: Err, Ok(None) or Ok(Some(Conversion)).
\* metaErr: whether reading a modification time fails for this entry.
into_conversion(entry, metaErr) ==
    IF Len(entry) = 0
    THEN [res |-> "Err", conv |-> Conversion(entry, entry)]
    ELSE LET prefix == <<entry[1]>>
             path == join(config.output, strip_prefix(entry, prefix))
         IN  IF ~exists(path)
             THEN [res |-> "Some", conv |-> Conversion(entry, path)]
             ELSE IF metaErr
             THEN [res |-> "Err", conv |-> Conversion(entry, path)]
             ELSE IF srcMtime[entry] > outFiles[path].mtime
             THEN [res |-> "Some", conv |-> Conversion(entry, path)]
             ELSE [res |-> "None", conv |-> Conversion(entry, path)]

\* The filter of the scan: a regular file with an accepted extension.
accepted(e) == extension(file_name(e)) \in extensions

\* A scan that turns every accepted entry into a Conversion, stale or not.
scan_all(walkErr, metaErr) ==
    {into_conversion(e, FALSE).conv :
        e \in {f \in DOMAIN srcMtime \ walkErr : extension(file_name(f)) \in extensions}}

\* A scan that collects into a Result and comes out empty at the first entry
\* that fails.
scan_abort(walkErr, metaErr) ==
    IF \E e \in DOMAIN srcMtime : accepted(e) /\
          (e \in walkErr \/ into_conversion(e, e \in metaErr).res = "Err")
    THEN {}
    ELSE {into_conversion(e, FALSE).conv :
             e \in {f \in DOMAIN srcMtime : accepted(f) /\
                       into_conversion(f, FALSE).res = "Some"}}

\* The Vec `entries` the scan collects, when the walk fails on walkErr and
\* metadata cannot be read for metaErr.
scan(walkErr, metaErr) ==
    {r.conv : r \in {x \in {into_conversion(e, e \in metaErr) :
                               e \in {f \in DOMAIN srcMtime \ walkErr : accepted(f)}} :
                     x.res = "Some"}}

\* The accepted entries of that scan that an error dropped.
dropped(walkErr, metaErr) ==
    {e \in DOMAIN srcMtime : accepted(e) /\
        (e \in walkErr \/ into_conversion(e, e \in metaErr).res = "Err")}

\* `build` is called; process_images scans the input tree and starts one
\* process_image future per Conversion.
Scan ==
    /\ pc = "idle"
    /\ \E walkErr \in SUBSET DOMAIN srcMtime :
       \E metaErr \in SUBSET (DOMAIN srcMtime \ walkErr) :
          /\ Cardinality(walkErr \cup metaErr) <= MaxFaults - faults
          /\ entries' = scan(walkErr, metaErr)
          /\ skipped' = dropped(walkErr, metaErr)
    /\ faults' = faults + Cardinality(skipped')
    /\ status' = [c \in entries' |-> "start"]
    /\ progress' = 0
    /\ pc' = "transcode"
    /\ written' = {}
    /\ UNCHANGED <<config, srcMtime, theme, now, outDirs, outFiles,
                   mirrorTodo, walkTodo, result, touched, clean>>

-----------------------------------------------------------------------------
(* process_image: one future per Conversion, polled by join_all *)

\* The directory and the path of a Conversion's thumbnail.
thumbnail_dir(c) == join(parent(c.to), <<"thumbnails">>)
thumbnail_path(c) == join(thumbnail_dir(c), <<file_name(c.to)>>)

\* A task that always writes the encoding of the decoded image.
rendition_reencoded(c) == Resized(c.from)

\* What the task writes to entry.to: the resized image when a resize box is
\* configured, the source's own bytes otherwise.
rendition(c) == IF config.resize THEN Resized(c.from) ELSE Raw(c.from)

\* A progress bar that also counts the task that returned Err.
progress_after_any(p, ok) == p + 1

\* The progress bar after a task's last step, which succeeded (ok) or returned Err.
progress_after(p, ok) == IF ok THEN p + 1 ELSE p

\* A step of a future fails.
Fault == faults < MaxFaults /\ faults' = faults + 1

\* Up to the first await: make sure the thumbnails directory exists.
MakeThumbnailDir(c) ==
    /\ pc = "transcode"
    /\ status[c] = "start"
    /\ \/ /\ outDirs' = IF exists(thumbnail_dir(c))
                        THEN outDirs
                        ELSE outDirs \cup ancestors(thumbnail_dir(c))
          /\ status' = [status EXCEPT ![c] = "decode"]
          /\ UNCHANGED faults
       \/ /\ ~exists(thumbnail_dir(c))
          /\ Fault
          /\ status' = [status EXCEPT ![c] = "failed"]
          /\ UNCHANGED outDirs
    /\ UNCHANGED <<config, srcMtime, theme, now, outFiles, pc, entries, progress,
                   mirrorTodo, walkTodo, result, skipped, written, touched, clean>>

\* A task that drops what saving the thumbnail returned and goes on to the
\* rendition.
MakeThumbnailUnchecked(c) ==
    /\ pc = "transcode"
    /\ status[c] = "decode"
    /\ \/ /\ outFiles' = (thumbnail_path(c) :> File(Thumbnail(c.from))) @@ outFiles
          /\ written' = written \cup {thumbnail_path(c)}
          /\ UNCHANGED faults
       \/ /\ Fault
          /\ UNCHANGED <<outFiles, written>>
    /\ status' = [status EXCEPT ![c] = "render"]
    /\ UNCHANGED <<config, srcMtime, theme, now, outDirs, pc, entries, progress,
                   mirrorTodo, walkTodo, result, skipped, touched, clean>>

\* Decode the source, then resize_and_save the thumbnail on a blocking thread.
\* The decode may fail; a save that fails may leave a truncated file.
MakeThumbnail(c) ==
    /\ pc = "transcode"
    /\ status[c] = "decode"
    /\ \/ /\ outFiles' = (thumbnail_path(c) :> File(Thumbnail(c.from))) @@ outFiles
          /\ written' = written \cup {thumbnail_path(c)}
          /\ status' = [status EXCEPT ![c] = "render"]
          /\ UNCHANGED faults
       \/ /\ Fault
          /\ UNCHANGED <<outFiles, written>>
          /\ status' = [status EXCEPT ![c] = "failed"]
       \/ /\ Fault
          /\ outFiles' = (thumbnail_path(c) :> File(Partial(c.from))) @@ outFiles
          /\ written' = written \cup {thumbnail_path(c)}
          /\ status' = [status EXCEPT ![c] = "failed"]
    /\ UNCHANGED <<config, srcMtime, theme, now, outDirs, pc, entries, progress,
                   mirrorTodo, walkTodo, result, skipped, touched, clean>>

\* Write the main rendition (resize_and_save or copy), then progress_bar.inc(1).
\* A write that fails may leave a truncated file.
MakeRendition(c) ==
    /\ pc = "transcode"
    /\ status[c] = "render"
    /\ \/ /\ outFiles' = (c.to :> File(rendition(c))) @@ outFiles
          /\ written' = written \cup {c.to}
          /\ status' = [status EXCEPT ![c] = "done"]
          /\ progress' = progress_after(progress, TRUE)
          /\ UNCHANGED faults
       \/ /\ Fault
          /\ UNCHANGED <<outFiles, written>>
          /\ status' = [status EXCEPT ![c] = "failed"]
          /\ progress' = progress_after(progress, FALSE)
       \/ /\ Fault
          /\ outFiles' = (c.to :> File(Partial(c.from))) @@ outFiles
          /\ written' = written \cup {c.to}
          /\ status' = [status EXCEPT ![c] = "failed"]
          /\ progress' = progress_after(progress, FALSE)
    /\ UNCHANGED <<config, srcMtime, theme, now, outDirs, pc, entries,
                   mirrorTodo, walkTodo, result, skipped, touched, clean>>

\* A join that returns at the first Err, dropping the futures still pending
\* (try_join_all).
try_join_all(st) ==
    \/ \E c \in DOMAIN st : st[c] = "failed"
    \/ \A c \in DOMAIN st : st[c] = "done"

\* join_all(futures).await returns once every future has returned, Ok or Err.
join_all(st) == \A c \in DOMAIN st : st[c] \in {"done", "failed"}

\* A process_images that returns the first Err among the tasks' results.
process_images_collect(st) ==
    IF \E c \in DOMAIN st : st[c] = "failed" THEN "Err(process_image)" ELSE "Ok"

\* What process_images returns after the join: the tasks' results are dropped.
process_images(st) == "Ok"

\* _theme/static and the directory it is mirrored to.
src_root == <<"_theme", "static">>
dst_root == join(config.output, <<"static">>)

\* `build` returns r and the Builder is dropped.
Return(r) ==
    /\ pc' = "idle"
    /\ result' = r
    /\ entries' = {}
    /\ status' = << >>
    /\ progress' = 0
    /\ mirrorTodo' = {}
    /\ walkTodo' = {}
    /\ skipped' = {}
    /\ written' = {}
    /\ touched' = {}
    /\ clean' = /\ r = "Ok"
                /\ skipped = {}
                /\ \A c \in entries : status[c] = "done"
                /\ \A e \in DOMAIN srcMtime : srcMtime[e] <= now
                /\ \A e \in DOMAIN theme : theme[e].mtime <= now

\* The join completes; `build` applies `?` to what process_images returned and
\* goes on to copy_static_data, which walks _theme/static when it is a directory.
JoinAll ==
    /\ pc = "transcode"
    /\ join_all(status)
    /\ IF process_images(status) = "Ok"
       THEN /\ pc' = "mirror"
            /\ mirrorTodo' = DOMAIN theme
            /\ UNCHANGED <<entries, status, progress, walkTodo, result, skipped,
                           written, touched, clean>>
       ELSE Return(process_images(status))
    /\ UNCHANGED <<config, srcMtime, theme, now, outDirs, outFiles, faults>>

-----------------------------------------------------------------------------
(* copy_static_data *)

\* A mirror that also copies onto a destination exactly as old as the asset.
must_copy_or_equal(e, dst) == ~exists(dst) \/ outFiles[dst].mtime <= theme[e].mtime

\* Whether the mirror copies the asset file e to dst.
must_copy(e, dst) == ~exists(dst) \/ outFiles[dst].mtime < theme[e].mtime

\* One turn of the loop over WalkDir::new(&src_root), on the entry e: a directory
\* is created when absent, a file is copied when absent or older.
MirrorEntry(e) ==
    LET dst == join(dst_root, e) IN
    /\ pc = "mirror"
    /\ e \in mirrorTodo
    /\ e = << >> \/ parent(e) \notin mirrorTodo
    /\ mirrorTodo' = mirrorTodo \ {e}
    /\ IF theme[e].isDir
       THEN /\ outDirs' = IF exists(dst) THEN outDirs ELSE outDirs \cup ancestors(dst)
            /\ UNCHANGED <<outFiles, written>>
       ELSE /\ outFiles' = IF must_copy(e, dst)
                           THEN (dst :> File(Raw(join(src_root, e)))) @@ outFiles
                           ELSE outFiles
            /\ written' = IF must_copy(e, dst) THEN written \cup {dst} ELSE written
            /\ UNCHANGED outDirs
    /\ UNCHANGED <<config, srcMtime, theme, now, pc, entries, status, progress,
                   walkTodo, result, skipped, touched, faults, clean>>

\* A mirror that leaves out the entry that failed and goes on with the walk.
MirrorSkips(e) ==
    /\ pc = "mirror"
    /\ e \in mirrorTodo
    /\ e = << >> \/ parent(e) \notin mirrorTodo
    /\ Fault
    /\ mirrorTodo' = {f \in mirrorTodo : ~starts_with(f, e)}
    /\ UNCHANGED <<config, srcMtime, theme, now, outDirs, outFiles, pc, entries, status,
                   progress, walkTodo, result, skipped, written, touched, clean>>

\* The walk step, the directory creation, the metadata or the copy fails:
\* copy_static_data returns the error and so does `build`.
MirrorFails(e) ==
    /\ pc = "mirror"
    /\ e \in mirrorTodo
    /\ e = << >> \/ parent(e) \notin mirrorTodo
    /\ Fault
    /\ Return("Err(copy_static_data)")
    /\ UNCHANGED <<config, srcMtime, theme, now, outDirs, outFiles>>

-----------------------------------------------------------------------------
(* write_templates *)

\* must_skip for a directory entry.
must_skip(d) == file_name(d) = "thumbnails" \/ file_name(d) = "static"

\* A walk that does not descend below the children of the output root
\* (max_depth(1)).
walked_shallow ==
    {d \in outDirs :
        /\ starts_with(d, config.output)
        /\ Len(d) <= Len(config.output) + 1
        /\ \A k \in Len(config.output)..Len(d) : ~must_skip(SubSeq(d, 1, k))}

\* The directories WalkDir::new(&output).filter_entry(!must_skip) yields: the
\* output root and what is below it, without what is at or below a skipped one.
walked ==
    {d \in outDirs :
        /\ starts_with(d, config.output)
        /\ \A k \in Len(config.output)..Len(d) : ~must_skip(SubSeq(d, 1, k))}

\* A `build` that starts write_templates without awaiting copy_static_data.
StartTemplatesEarly ==
    /\ pc = "mirror"
    /\ IF config.output \in outDirs
       THEN /\ pc' = "templates"
            /\ walkTodo' = {d \in outDirs : starts_with(d, config.output) /\
                              \A k \in Len(config.output)..Len(d) :
                                  file_name(SubSeq(d, 1, k)) \notin {"thumbnails", "static"}}
            /\ UNCHANGED <<entries, status, progress, mirrorTodo, result, skipped,
                           written, touched, clean>>
       ELSE /\ pc' = "idle" /\ result' = "Err(write_templates)"
            /\ entries' = {} /\ status' = << >> /\ progress' = 0
            /\ mirrorTodo' = {} /\ walkTodo' = {} /\ skipped' = {}
            /\ written' = {} /\ touched' = {} /\ clean' = FALSE
    /\ UNCHANGED <<config, srcMtime, theme, now, outDirs, outFiles, faults>>

\* The mirror is through; write_templates starts its walk of the output tree,
\* which fails at once when the output root does not exist.
StartTemplates ==
    /\ pc = "mirror"
    /\ mirrorTodo = {}
    /\ IF config.output \in outDirs
       THEN /\ pc' = "templates"
            /\ walkTodo' = walked
            /\ UNCHANGED <<entries, status, progress, mirrorTodo, result, skipped,
                           written, touched, clean>>
       ELSE Return("Err(write_templates)")
    /\ UNCHANGED <<config, srcMtime, theme, now, outDirs, outFiles, faults>>

\* Whether write_template lists the child e as a sub-album.
is_album(e) == e \in outDirs /\ file_name(e) # "thumbnails"

\* Whether write_template lists the child e as an image.
is_image(e) == e \in DOMAIN outFiles /\ extension(file_name(e)) \in extensions

\* read_dir(d): the direct children of d.
children(d) == {p \in outDirs \cup DOMAIN outFiles : Len(p) = Len(d) + 1 /\ parent(p) = d}

\* The children of d that one of write_template's two filters keeps.
listed(d) == {e \in children(d) : is_album(e) \/ is_image(e)}

\* Image { image, thumbnail }.
Image(e) == [image |-> file_name(e), thumbnail |-> "thumbnails/" \o file_name(e)]

\* `count` times "..", then "static".
RECURSIVE static_path(_)
static_path(count) == IF count <= 0 THEN <<"static">> ELSE <<"..">> \o static_path(count - 1)

\* The entry of `albums` for the child directory e.
album_name(e) == file_name(strip_prefix(e, config.output)) \o "/"

\* A write_template that takes the album's thumbnail from the last image.
write_template_last(d, listing) ==
    LET kept == SelectSeq(listing, is_image)
        subs == SelectSeq(listing, is_album)
        images == [i \in 1..Len(kept) |-> Image(kept[i])]
    IN
    [kind |-> "page",
     of |-> d,
     album |-> [title |-> file_name(d),
                albums |-> [i \in 1..Len(subs) |-> album_name(subs[i])],
                thumbnail |-> IF images = << >> THEN << >>
                              ELSE <<images[Len(images)].thumbnail>>,
                images |-> images],
     theme |-> [url |-> static_path(Len(d) - 1)]]

\* The context write_template renders for the directory d, whose read_dir
\* yields the children it keeps in the order `listing`.
write_template(d, listing) ==
    LET kept == SelectSeq(listing, is_image)
        subs == SelectSeq(listing, is_album)
        images == [i \in 1..Len(kept) |-> Image(kept[i])]
    IN
    [kind |-> "page",
     of |-> d,
     album |-> [title |-> file_name(d),
                albums |-> [i \in 1..Len(subs) |-> album_name(subs[i])],
                thumbnail |-> IF images = << >> THEN << >> ELSE <<images[1].thumbnail>>,
                images |-> images],
     theme |-> [url |-> static_path(Len(d) - 1)]]

\* One turn of the loop of write_templates: the index page of d is written.
WriteTemplate(d) ==
    /\ pc = "templates"
    /\ d \in walkTodo
    /\ parent(d) \notin walkTodo
    /\ walkTodo' = walkTodo \ {d}
    /\ \E listing \in Orders(listed(d)) :
          outFiles' = (join(d, <<"index.html">>) :> File(write_template(d, listing))) @@ outFiles
    /\ written' = written \cup {join(d, <<"index.html">>)}
    /\ UNCHANGED <<config, srcMtime, theme, now, outDirs, pc, entries, status, progress,
                   mirrorTodo, result, skipped, touched, faults, clean>>

\* The walk step, read_dir, the rendering or the write fails.
TemplateFails(d) ==
    /\ pc = "templates"
    /\ d \in walkTodo
    /\ parent(d) \notin walkTodo
    /\ Fault
    /\ Return("Err(write_templates)")
    /\ UNCHANGED <<config, srcMtime, theme, now, outDirs, outFiles>>

\* The walk is through: write_templates and `build` return Ok.
Finish ==
    /\ pc = "templates"
    /\ walkTodo = {}
    /\ Return("Ok")
    /\ UNCHANGED <<config, srcMtime, theme, now, outDirs, outFiles, faults>>

-----------------------------------------------------------------------------

Next ==
    \/ Tick
    \/ TouchSource
    \/ TouchAsset
    \/ Scan
    \/ \E c \in entries : MakeThumbnailDir(c)
    \/ \E c \in entries : MakeThumbnail(c)
    \/ \E c \in entries : MakeRendition(c)
    \/ JoinAll
    \/ \E e \in ThemeRel : MirrorEntry(e)
    \/ \E e \in ThemeRel : MirrorFails(e)
    \/ StartTemplates
    \/ \E d \in walkTodo : WriteTemplate(d)
    \/ \E d \in walkTodo : TemplateFails(d)
    \/ Finish

Spec == Init /\ [][Next]_vars

-----------------------------------------------------------------------------
(* Properties *)

\* The sources of a set of Conversions.
Froms(E) == {c.from : c \in E}

\* An album's index page.
IndexPage(p) == file_name(p) = "index.html"

\* The staleness rule: dst does not exist, or is strictly older than m.
Stale(dst, m) == ~exists(dst) \/ outFiles[dst].mtime < m

C2_StalenessRule ==
    [][/\ (pc = "idle" /\ pc' = "transcode" =>
             \A e \in DOMAIN srcMtime : (accepted(e) /\ e \notin skipped') =>
                 (e \in Froms(entries')
                     <=> Stale(into_conversion(e, FALSE).conv.to, srcMtime[e])))
       /\ (pc = "mirror" /\ pc' = "mirror" =>
             \A e \in mirrorTodo \ mirrorTodo' : ~theme[e].isDir =>
                 (join(dst_root, e) \in written'
                     <=> Stale(join(dst_root, e), theme[e].mtime)))]_vars

\* In a later build, the scan has emitted one image and left another, whose
\* rendition exists, alone; the mirror has left an asset that exists alone.
C2_Witness ==
    /\ pc = "mirror" /\ mirrorTodo = {} /\ result # "None"
    /\ entries # {}
    /\ \E e \in DOMAIN srcMtime :
          /\ accepted(e) /\ e \notin skipped /\ e \notin Froms(entries)
          /\ exists(into_conversion(e, FALSE).conv.to)
    /\ \E e \in DOMAIN theme :
          ~theme[e].isDir /\ exists(join(dst_root, e)) /\ join(dst_root, e) \notin written

C4_ReservedNames ==
    \A p \in DOMAIN outFiles : IndexPage(p) =>
        /\ file_name(parent(p)) \notin {"thumbnails", "static"}
        /\ \A i \in DOMAIN outFiles[p].content.album.albums :
              outFiles[p].content.album.albums[i] \notin {"thumbnails/", "static/"}

\* C5, as stated: the Conversion of the source IN/<rel>/name.ext writes its
\* rendition to OUT/<rel>/name.ext and its thumbnail to OUT/<rel>/thumbnails/name.ext.
C5_OutputLayout ==
    \A c \in entries :
        LET rel == strip_prefix(c.from, config.input) IN
        /\ c.to = join(config.output, rel)
        /\ thumbnail_path(c) =
              join(config.output, join(parent(rel), <<"thumbnails", file_name(rel)>>))

\* C6: with no resize box configured, the rendition of a task that has
\* succeeded holds the bytes of the source.
C6_ByteIdentity ==
    ~config.resize =>
        \A c \in entries : status[c] = "done" =>
            c.to \in DOMAIN outFiles /\ outFiles[c.to].content = Raw(c.from)

\* A task has succeeded with no resize box configured.
C6_Witness == ~config.resize /\ \E c \in entries : status[c] = "done"

\* The steps of the future of c.
Step(c) == MakeThumbnailDir(c) \/ MakeThumbnail(c) \/ MakeRendition(c)

\* C7: while the tasks run, a task that has not returned can take its next
\* step whatever the others did; no more tasks have failed than steps have;
\* when the stage is over every task has returned, and each one that is not
\* failed has written its thumbnail and its rendition.
C7_TaskIsolation ==
    /\ pc = "transcode" =>
          \A c \in entries : status[c] \notin {"done", "failed"} => ENABLED Step(c)
    /\ Cardinality({c \in entries : status[c] = "failed"}) <= faults
    /\ pc \in {"mirror", "templates"} =>
          \A c \in entries :
              \/ status[c] = "failed"
              \/ /\ status[c] = "done"
                 /\ {c.to, thumbnail_path(c)} \subseteq written \cap DOMAIN outFiles

\* The stage is over: one task failed and another wrote its two files.
C7_Witness ==
    /\ pc = "mirror"
    /\ \E c \in entries : status[c] = "failed"
    /\ \E c \in entries : status[c] = "done"

\* C8: an index page is written only in the assembly stage, when every task
\* has returned and every theme asset is mirrored; the step that writes it
\* writes no image.
C8_StageOrdering ==
    [][(\E p \in written' \ written : IndexPage(p)) =>
          /\ pc = "templates"
          /\ \A c \in entries : status[c] \in {"done", "failed"}
          /\ \A e \in DOMAIN theme : exists(join(dst_root, e))
          /\ \A p \in written' \ written : IndexPage(p)]_vars

\* An index page has been written in a build that transcoded and mirrored.
C8_Witness ==
    /\ pc = "templates"
    /\ \E p \in written : IndexPage(p)
    /\ \E c \in entries : status[c] = "done"
    /\ \E e \in DOMAIN theme : join(dst_root, e) \in written

\* C9: the transcode stage always ends in the mirror stage, the build's result
\* still open, and a build only ever returns Ok or the error of the mirror or
\* of the assembly.
C9_PipelineCompletes ==
    [][/\ (pc = "transcode" /\ pc' # "transcode") => (pc' = "mirror" /\ result' = result)
       /\ result' \in {"None", "Ok", "Err(copy_static_data)", "Err(write_templates)"}]_vars

\* Every task of the build failed, and the build is assembling the albums.
C9_Witness ==
    /\ pc = "templates"
    /\ entries # {}
    /\ \A c \in entries : status[c] = "failed"

\* C10: the progress bar counts the tasks that have succeeded, and never
\* more than the scan emitted.
C10_ProgressCounter ==
    /\ progress = Cardinality({c \in entries : status[c] = "done"})
    /\ progress <= Cardinality(entries)

\* The stage is over with a resize box configured: the bar counts the task that
\* succeeded and not the one that failed.
C10_Witness ==
    /\ pc = "mirror" /\ config.resize
    /\ progress = 1
    /\ \E c \in entries : status[c] = "failed"

\* C11, as stated: the index page of a directory d levels below the output
\* root carries the theme url made of d times "..", then "static", whatever
\* path the output root is configured as.
C11_StaticRootPath ==
    \A p \in DOMAIN outFiles : IndexPage(p) =>
        outFiles[p].content.theme.url =
            static_path(Len(outFiles[p].content.of) - Len(config.output))

\* The thumbnail that goes with the rendition p.
thumbnail_of(p) == join(parent(p), <<"thumbnails", file_name(p)>>)

\* C12: a task that has written its rendition has written its thumbnail
\* before, and wherever a rendition D/X exists the thumbnail D/thumbnails/X
\* exists too, also after a task failed between its two writes.
C12_ThumbnailBeforeRendition ==
    /\ \A c \in entries : c.to \in written => thumbnail_path(c) \in written
    /\ \A p \in DOMAIN outFiles :
          (is_image(p) /\ file_name(parent(p)) # "thumbnails") =>
              thumbnail_of(p) \in DOMAIN outFiles

\* One task has written its two files; another has written its thumbnail and
\* failed before its rendition existed.
C12_Witness ==
    /\ \E c \in entries : status[c] = "done" /\ c.to \in DOMAIN outFiles
    /\ \E c \in entries :
          /\ status[c] = "failed"
          /\ thumbnail_path(c) \in written
          /\ c.to \notin DOMAIN outFiles

\* An input tree with a directory of a reserved name: IN/p.jpg next to
\* IN/thumbnails/p.jpg.
ReservedImages == {<<"p.jpg">>, <<"thumbnails", "p.jpg">>}

\* The first build of the input tree that holds the images T, every file
\* older than the clock, from an empty output tree.
InitTree(T) ==
    /\ \E r \in Roots, resize \in BOOLEAN :
          config = [input |-> r.input, output |-> r.output, resize |-> resize]
    /\ now = 1
    /\ srcMtime = Sources(T, FALSE)
    /\ theme \in {<< >>, Theme}
    /\ outDirs = {}
    /\ outFiles = << >>
    /\ pc = "idle"
    /\ entries = {}
    /\ status = << >>
    /\ progress = 0
    /\ mirrorTodo = {}
    /\ walkTodo = {}
    /\ result = "None"
    /\ skipped = {}
    /\ written = {}
    /\ touched = {}
    /\ faults = 0
    /\ clean = FALSE

InitReserved == InitTree(ReservedImages)

SpecReserved == InitReserved /\ [][Next]_vars

\* The paths the task of c writes.
writes(c) == {thumbnail_path(c), c.to}

\* C13, as stated: two distinct Conversions of one scan write disjoint sets of
\* paths.
C13_WriteDisjointness ==
    \A c1 \in entries : \A c2 \in entries \ {c1} : writes(c1) \cap writes(c2) = {}

\* An input tree with two images in one directory.
AlbumImages == {<<"p.jpg">>, <<"r.jpg">>}

InitAlbum == InitTree(AlbumImages)

SpecAlbum == InitAlbum /\ [][Next]_vars

\* C14: an index page carries a thumbnail if and only if its images list is
\* not empty, and then the thumbnail is `thumbnails/<image>` of the first
\* entry of that list.
C14_RepresentativeThumbnail ==
    \A p \in DOMAIN outFiles : IndexPage(p) =>
        LET album == outFiles[p].content.album IN
        /\ album.thumbnail # << >> <=> album.images # << >>
        /\ album.images # << >> =>
              album.thumbnail = <<"thumbnails/" \o album.images[1].image>>

\* One index page lists two images, r.jpg first, and carries the thumbnail of
\* r.jpg; another lists no image and carries no thumbnail.
C14_Witness ==
    /\ \E p \in DOMAIN outFiles :
          /\ IndexPage(p)
          /\ Len(outFiles[p].content.album.images) = 2
          /\ outFiles[p].content.album.images[1].image = "r.jpg"
          /\ outFiles[p].content.album.thumbnail = <<"thumbnails/r.jpg">>
    /\ \E p \in DOMAIN outFiles :
          /\ IndexPage(p)
          /\ outFiles[p].content.album.images = << >>
          /\ outFiles[p].content.album.thumbnail = << >>

\* The directories of the output tree that are not named thumbnails or static
\* and are not below one that is.
Albums ==
    {d \in outDirs :
        /\ starts_with(d, config.output)
        /\ \A k \in (Len(config.output) + 1)..Len(d) : d[k] \notin {"thumbnails", "static"}}

\* C15: when the assembly has gone through, and after the build has returned
\* Ok, every directory of the output tree that is not reserved, nor below a
\* reserved one, holds an index page, and that page lists each child directory
\* b that is not reserved as `b/`.
C15_IndexCoverage ==
    ((pc = "templates" /\ walkTodo = {}) \/ (pc = "idle" /\ result = "Ok")) =>
        \A d \in Albums :
            /\ join(d, <<"index.html">>) \in DOMAIN outFiles
            /\ \A b \in Albums : (Len(b) = Len(d) + 1 /\ parent(b) = d) =>
                  \E i \in DOMAIN outFiles[join(d, <<"index.html">>)].content.album.albums :
                      outFiles[join(d, <<"index.html">>)].content.album.albums[i]
                          = file_name(b) \o "/"

\* A build of a/b/r.jpg has returned Ok: the directory a holds an index page
\* that lists `b/`, and a/b holds one too.
C15_Witness ==
    /\ pc = "idle" /\ result = "Ok"
    /\ \E d \in Albums :
          /\ file_name(d) = "b"
          /\ join(d, <<"index.html">>) \in DOMAIN outFiles
          /\ join(parent(d), <<"index.html">>) \in DOMAIN outFiles
          /\ outFiles[join(parent(d), <<"index.html">>)].content.album.albums = <<"b/">>

\* C16: a step of the mirror that fails ends the build with the mirror's
\* error: the assets the walk had not reached are left as they were and no
\* index page was or will be written by that build; a step of a transcode task
\* that fails leaves the build in its transcode stage.
C16_FatalMirrorFailure ==
    [][/\ (pc = "mirror" /\ faults' > faults) =>
             /\ pc' = "idle" /\ result' = "Err(copy_static_data)"
             /\ outFiles' = outFiles /\ outDirs' = outDirs
             /\ \A p \in written : ~IndexPage(p)
       /\ (pc = "transcode" /\ faults' > faults) =>
             pc' = "transcode" /\ result' = result]_vars

\* The first build has transcoded an image and has returned the mirror's error:
\* the asset directory exists, some asset is not mirrored and there is no
\* index page.
C16_Witness ==
    /\ pc = "idle" /\ result = "Err(copy_static_data)"
    /\ \E e \in DOMAIN srcMtime : exists(into_conversion(e, FALSE).conv.to)
    /\ dst_root \in outDirs
    /\ \E e \in DOMAIN theme : ~exists(join(dst_root, e))
    /\ \A p \in DOMAIN outFiles : ~IndexPage(p)

\* C17: the scan emits no Conversion for an entry it dropped on an error, and
\* goes on: it emits one for every other accepted entry whose destination does
\* not exist or is older, and the build enters its transcode stage.
C17_PerEntryScanErrors ==
    [][(pc = "idle" /\ pc' # "idle") =>
          /\ pc' = "transcode" /\ result' = result
          /\ \A e \in skipped' : e \notin Froms(entries')
          /\ \A e \in DOMAIN srcMtime \ skipped' :
                (accepted(e) /\ Stale(into_conversion(e, FALSE).conv.to, srcMtime[e])) =>
                    \E c \in entries' : c.from = e /\ status'[c] = "start"]_vars

\* A scan has dropped one image on an error and has emitted another.
C17_Witness ==
    /\ pc = "transcode"
    /\ skipped # {}
    /\ entries # {}
    /\ \A c \in entries : status[c] = "start"

\* The directories of the input tree: the input root and every directory on
\* the way to a file.
InputDirs ==
    {d \in UNION {ancestors(parent(e)) : e \in DOMAIN srcMtime} :
        starts_with(d, config.input)}

\* C18, as stated: after a build that returned Ok, the directories of the
\* output tree that are not reserved, taken relative to the output root, are
\* the directories of the input tree, taken relative to the input root.
C18_TopologyMirroring ==
    (pc = "idle" /\ result = "Ok") =>
        {strip_prefix(d, config.output) : d \in Albums}
            = {strip_prefix(d, config.input) : d \in InputDirs}

\* C19, as stated: a task that has failed leaves its rendition missing or
\* strictly older than its source, so that the next scan emits it again.
C19_RetryAfterFailure ==
    \A c \in entries : status[c] = "failed" => Stale(c.to, srcMtime[c.from])

====
